---- MODULE Spec2Model ----
(***************************************************************************)
(* File-management API: the DynamoDB metadata store (DynamoHandler in      *)
(* backend/utils/dynamo_handler.py) and the request handlers that combine  *)
(* it with the S3 blob store (backend/app.py).                             *)
(*                                                                         *)
(* The table and the bucket are shared by every request; a request is a    *)
(* sequence of store calls and each store call is one atomic step, so the  *)
(* calls of concurrent requests interleave freely.                         *)
(***************************************************************************)
EXTENDS Integers, Sequences, FiniteSets, TLC

(* ------------------------------ bounds -------------------------------- *)

\* number of concurrent requests in flight
NumProcs == 2
\* number of distinct file ids the clients of the metadata store use
NumIds == 1
\* number of ids uuid4 can hand out to upload_file
NumUploads == 2
\* number of distinct file ids in the table list_files scans
NumListIds == 3
\* datetime.now() takes the values 0..MaxClock
MaxClock == 1
\* largest page size asked of list_files
MaxLimit == 2
\* batch_delete_files is called with 0..BatchWriteLimit+MaxExtraIds ids
MaxExtraIds == 5
\* number of ids uuid4 can hand out while store calls may raise
NumFaultIds == 1
\* longest list of operations sent to batch_operation
MaxOps == 2

(* ------------------------- program constants -------------------------- *)

\* "DynamoDB limits batch writes to 25 items"
BatchWriteLimit == 25
\* "DynamoDB limits batch gets to 100 items"
BatchReadLimit == 100

Procs == 1..NumProcs
FileIds == 1..NumIds
UploadIds == 1..NumUploads
ListIds == 1..NumListIds
FaultIds == 1..NumFaultIds
BatchIds == 1..(BatchWriteLimit + MaxExtraIds)
ReadIds == 1..(BatchReadLimit + MaxExtraIds)
Times == 0..MaxClock

\* Python's None / a missing item
NoItem == [none |-> TRUE]
\* no ExclusiveStartKey / no LastEvaluatedKey
NoKey == 0

(* ------------------------------ items --------------------------------- *)
\* An item (a Python dict) is a function from attribute names to values.

\* dict.update: the attributes of over replace or extend those of item
SetFields(item, over) ==
  [f \in DOMAIN item \cup DOMAIN over |->
     IF f \in DOMAIN over THEN over[f] ELSE item[f]]

\* dict.get(key, default)
DictGet(item, key, default) ==
  IF key \in DOMAIN item THEN item[key] ELSE default

\* the table with item stored under its key
TablePut(tbl, item) ==
  [i \in DOMAIN tbl \cup {item.id} |-> IF i = item.id THEN item ELSE tbl[i]]

\* the table without the items stored under ids
TableRemove(tbl, ids) ==
  [i \in DOMAIN tbl \ ids |-> tbl[i]]

\* table.get_item(Key={'id': file_id}, ConsistentRead=True).get('Item')
GetItem(tbl, file_id) ==
  IF file_id \in DOMAIN tbl THEN tbl[file_id] ELSE NoItem

(* ---------------------------- create_file ----------------------------- *)

\* mutant: the caller's version and timestamps are kept when supplied
StampKeepSupplied(file_data, t) ==
  SetFields([created_at |-> t, updated_at |-> t, version |-> 1], file_data)

\* mutant: updated_at comes from a second, later reading of the clock
StampTwoClockReads(file_data, t) ==
  SetFields(file_data, [created_at |-> t, updated_at |-> t + 1, version |-> 1])

\* create_file: created_at = now, updated_at = created_at, version = 1
Stamp(file_data, t) ==
  SetFields(file_data, [created_at |-> t, updated_at |-> t, version |-> 1])

\* mutant: put_item without the ConditionExpression
PutConditionNone(tbl, item) == TRUE

\* ConditionExpression='attribute_not_exists(id)'
PutCondition(tbl, item) == item.id \notin DOMAIN tbl

\* DynamoHandler.create_file as a function of the table and the clock
CreateFile(tbl, file_data, t) ==
  LET item == Stamp(file_data, t) IN
  IF PutCondition(tbl, item)
    THEN [outcome |-> "ok", table |-> TablePut(tbl, item), item |-> item]
    ELSE [outcome |-> "AlreadyExists", table |-> tbl, item |-> NoItem]

(* ---------------------------- update_file ----------------------------- *)

\* the keys update_file never copies from update_data into the expression
ProtectedKeys == {"id", "created_at", "updated_at", "version"}

\* iteration order of a dict's keys (any fixed order of the attribute names)
FieldOrder ==
  << "id", "name", "size", "content_type", "last_modified", "s3_key", "status",
     "version", "created_at", "updated_at", "description", "tags" >>

\* the keys of a dict, as the sequence a for loop visits
Keys(d) == SelectSeq(FieldOrder, LAMBDA f : f \in DOMAIN d)

\* Tokens of an UpdateExpression: the clause keyword "set", an assignment to a
\* plain attribute name, an assignment to a '#name' placeholder.
KwSet == [k |-> "kw", v |-> "set"]
Assign(attr) == [k |-> "attr", v |-> attr]
AssignRef(key) == [k |-> "ref", v |-> key]

\* for key, value in update_data.items(): if key not in [protected keys]
CopiedKeys(update_data) ==
  SelectSeq(Keys(update_data), LAMBDA f : f \notin ProtectedKeys)

\* update_expr: ['set updated_at = :updated_at', 'version = :new_version']
\* followed by '#key = :key' for every copied key
UpdateExprList(update_data) ==
  << KwSet, Assign("updated_at"), Assign("version") >>
    \o [n \in 1..Len(CopiedKeys(update_data)) |->
          AssignRef(CopiedKeys(update_data)[n])]

\* mutant: the clause list is joined without a second 'set ' in front
UpdateExpressionJoinOnly(update_data) == UpdateExprList(update_data)

\* UpdateExpression='set ' + ', '.join(update_expr)
UpdateExpression(update_data) == << KwSet >> \o UpdateExprList(update_data)

\* expr_attr_names = {f'#{k}': k for k in update_data.keys()}
ExprAttrNames(update_data) == DOMAIN update_data

\* expr_attr_values: :updated_at, :current_version, :new_version and one
\* ':key' for every copied key
ExprAttrValues(update_data, t, current_version) ==
  SetFields(
    [f \in {CopiedKeys(update_data)[n] : n \in 1..Len(CopiedKeys(update_data))}
       |-> update_data[f]],
    [updated_at |-> t, version |-> current_version + 1])

\* DynamoDB's validation of an UpdateItem request: the expression is one SET
\* clause (the keyword once, in front, followed by at least one assignment:
\* "each action keyword can appear only once", and SET is a reserved word, so
\* it is no attribute name either), every '#name' used is defined, and every
\* name defined in ExpressionAttributeNames is used.
ValidUpdateRequest(expr, names) ==
  /\ Len(expr) >= 2
  /\ expr[1] = KwSet
  /\ \A n \in 2..Len(expr) : expr[n].k # "kw"
  /\ \A n \in 1..Len(expr) : expr[n].k = "ref" => expr[n].v \in names
  /\ \A name \in names : \E n \in 1..Len(expr) : expr[n] = AssignRef(name)

\* ConditionExpression='version = :current_version' (false on a missing item
\* and on an item without a version)
UpdateCondition(tbl, file_id, current_version) ==
  /\ file_id \in DOMAIN tbl
  /\ "version" \in DOMAIN tbl[file_id]
  /\ tbl[file_id].version = current_version

\* the item after the assignments of a valid SET clause
ApplySet(item, expr, values) ==
  [f \in DOMAIN item \cup {expr[n].v : n \in 2..Len(expr)} |->
     IF \E n \in 2..Len(expr) : expr[n].v = f THEN values[f] ELSE item[f]]

\* mutant: update_item with a well-formed expression and no
\* ConditionExpression, which stores a new item when none is there
UpdateItemUpsert(tbl, file_id, update_data, t, current_version) ==
  LET expr == UpdateExprList(update_data)
      values == ExprAttrValues(update_data, t, current_version)
      new == ApplySet(SetFields(GetItem(tbl, file_id), [id |-> file_id]),
                      expr, values)
  IN [outcome |-> "ok", table |-> TablePut(tbl, new), item |-> new]

\* table.update_item(...) and the except clauses of update_file: a request
\* DynamoDB does not accept raises a ClientError (ValidationException) before
\* the condition is looked at; a failed condition raises
\* ConditionalCheckFailedException, which update_file turns into the
\* "Concurrent update detected" ValueError.
UpdateItem(tbl, file_id, update_data, t, current_version) ==
  LET expr == UpdateExpression(update_data)
      names == ExprAttrNames(update_data)
      values == ExprAttrValues(update_data, t, current_version)
  IN
  IF ~ValidUpdateRequest(expr, names)
    THEN [outcome |-> "ClientError", table |-> tbl, item |-> NoItem]
  ELSE IF ~UpdateCondition(tbl, file_id, current_version)
    THEN [outcome |-> "ConcurrentModification", table |-> tbl, item |-> NoItem]
  ELSE LET new == ApplySet(tbl[file_id], expr, values) IN
       [outcome |-> "ok", table |-> TablePut(tbl, new), item |-> new]

(* ---------------------------- delete_file ----------------------------- *)

\* mutant: delete_item without the ConditionExpression
DeleteConditionNone(tbl, file_id) == TRUE

\* ConditionExpression='attribute_exists(id)'
DeleteCondition(tbl, file_id) == file_id \in DOMAIN tbl

\* DynamoHandler.delete_file as a function of the table
DeleteFile(tbl, file_id) ==
  IF DeleteCondition(tbl, file_id)
    THEN [outcome |-> "ok", table |-> TableRemove(tbl, {file_id})]
    ELSE [outcome |-> "NotFound", table |-> tbl]

(* ----------------------------- list_files ----------------------------- *)

Min(a, b) == IF a <= b THEN a ELSE b

\* the ids of S in the order a scan visits them (DynamoDB fixes an order of
\* the keys; ascending ids stand for it)
RECURSIVE ScanOrder(_)
ScanOrder(S) ==
  IF S = {} THEN << >>
  ELSE LET m == CHOOSE x \in S : \A y \in S : x <= y IN
       << m >> \o ScanOrder(S \ {m})

\* mutant: the scan without its FilterExpression
FilterExpressionNone(item) == TRUE

\* 'FilterExpression': Attr('status').eq('active')
FilterExpression(item) == "status" \in DOMAIN item /\ item.status = "active"

\* 'Limit': the number of items the scan evaluates, before the filter
ScanLimit(limit, remaining) == Min(limit, remaining)

\* mutant: the cursor is the key of the last item returned rather than of
\* the last item evaluated
ListFilesCursorOfPage(tbl, limit, last_evaluated_key) ==
  IF limit < 1
    THEN [outcome |-> "ClientError", page |-> << >>, cursor |-> NoKey]
  ELSE
    LET rest == ScanOrder({i \in DOMAIN tbl :
                             last_evaluated_key = NoKey \/ i > last_evaluated_key})
        n == ScanLimit(limit, Len(rest))
        kept == SelectSeq(SubSeq(rest, 1, n), LAMBDA i : FilterExpression(tbl[i]))
    IN [outcome |-> "ok",
        page |-> [k \in 1..Len(kept) |-> tbl[kept[k]]],
        cursor |-> IF Len(rest) >= limit /\ kept # << >>
                     THEN kept[Len(kept)] ELSE NoKey]

\* table.scan(**params) and list_files' return value.  last_evaluated_key is
\* put into the request only when it is truthy; DynamoDB rejects a Limit below
\* 1, evaluates the next Limit items after ExclusiveStartKey, returns those
\* the filter keeps, and returns the last key evaluated as LastEvaluatedKey
\* when it stopped at the limit.
ListFiles(tbl, limit, last_evaluated_key) ==
  IF limit < 1
    THEN [outcome |-> "ClientError", page |-> << >>, cursor |-> NoKey]
  ELSE
    LET rest == ScanOrder({i \in DOMAIN tbl :
                             last_evaluated_key = NoKey \/ i > last_evaluated_key})
        n == ScanLimit(limit, Len(rest))
        evaluated == SubSeq(rest, 1, n)
        kept == SelectSeq(evaluated, LAMBDA i : FilterExpression(tbl[i]))
    IN [outcome |-> "ok",
        page |-> [k \in 1..Len(kept) |-> tbl[kept[k]]],
        cursor |-> IF Len(rest) >= limit THEN evaluated[n] ELSE NoKey]

(* ------------------------- batch_delete_files ------------------------- *)

\* file_ids = file_ids[:25]
Truncate(file_ids) == SubSeq(file_ids, 1, Min(Len(file_ids), BatchWriteLimit))

\* the elements of a sequence
Range(seq) == {seq[k] : k \in 1..Len(seq)}

(* ------------------------------ state --------------------------------- *)

VARIABLES
  table,       \* the DynamoDB table: stored id -> item
  blobs,       \* the S3 bucket: key -> ContentLength of the object stored
  now,         \* the value datetime.now() returns
  pc,          \* per request slot: the store call it is about to make
  req,         \* per request slot: the locals of the handler in flight
  ret,         \* what the call that returned last gave its caller
  fresh,       \* the file_data of the last successful direct create_file
               \* call, while no later write has touched its id (NoItem
               \* otherwise)
  created,     \* per stored id: successful create_file calls since it was
               \* last absent
  updated,     \* per stored id: successful update_file calls since it was
               \* created
  issued,      \* the ids handed out so far (uuid4 does not repeat one)
  hist,        \* per caller of the update race: the version it read and
               \* the outcome it got
  batch        \* the locals of batch_delete_files in flight

vars ==
  << table, blobs, now, pc, req, ret, fresh, created, updated, issued, hist,
     batch >>

NoReq == [op |-> "none"]

\* a response: the call and its argument, the exception kind (or "ok"), the
\* HTTP status (0 for a direct call of the handler class), the item returned
\* and, for list_files, page and cursor
Response(op, id, arg, outcome, http, item) ==
  [op |-> op, id |-> id, arg |-> arg, outcome |-> outcome, http |-> http,
   item |-> item, page |-> << >>, cursor |-> NoKey]

EmptyTable == [i \in {} |-> NoItem]

\* maps from ids to numbers (the counters created and updated, the bucket's
\* ContentLength per key): an id outside the domain counts 0
EmptyCount == [i \in {} |-> 0]
Count(f, i) == IF i \in DOMAIN f THEN f[i] ELSE 0
SetCount(f, i, n) == [j \in DOMAIN f \cup {i} |-> IF j = i THEN n ELSE f[j]]
DropCount(f, i) == [j \in DOMAIN f \ {i} |-> f[j]]

Init ==
  /\ table = EmptyTable
  /\ blobs = EmptyCount
  /\ now = 0
  /\ pc = [p \in Procs |-> "idle"]
  /\ req = [p \in Procs |-> NoReq]
  /\ ret = Response("none", NoKey, NoItem, "ok", 0, NoItem)
  /\ fresh = NoItem
  /\ created = EmptyCount
  /\ updated = EmptyCount
  /\ issued = {}
  /\ hist = [p \in Procs |-> NoReq]
  /\ batch = NoReq

\* datetime.now() moves on
Tick ==
  /\ now < MaxClock
  /\ now' = now + 1
  /\ UNCHANGED << table, blobs, pc, req, ret, fresh, created, updated, issued >>

(* ------------------------------ inputs -------------------------------- *)

\* file_data as upload_file builds it, and one that carries its own version,
\* timestamps and a status other than active
FileData(i) ==
  { [id |-> i, name |-> "x.txt", size |-> 10, content_type |-> "text/plain",
     s3_key |-> i, status |-> "active"],
    [id |-> i, name |-> "y.txt", size |-> 20, status |-> "deleted",
     version |-> 7, created_at |-> 9, updated_at |-> 8] }

\* update_data: a rename that also carries size, and a patch of protected keys
Patches ==
  { [name |-> "z.txt", size |-> 99],
    [id |-> 0, created_at |-> 5, size |-> 99] }

(* ------------------- DynamoHandler, called directly -------------------- *)

\* the ghost fresh after a successful write to file_id
Touched(file_id) ==
  IF fresh # NoItem /\ fresh.id = file_id THEN NoItem ELSE fresh

\* DynamoHandler.create_file(file_data)
Dynamo_create_file(p, file_data) ==
  LET res == CreateFile(table, file_data, now) IN
  /\ pc[p] = "idle"
  /\ table' = res.table
  /\ ret' = Response("create_file", file_data.id, file_data, res.outcome, 0,
                   res.item)
  /\ fresh' = IF res.outcome = "ok" THEN file_data ELSE fresh
  /\ created' = IF res.outcome = "ok"
                  THEN SetCount(created, file_data.id,
                                Count(created, file_data.id) + 1)
                  ELSE created
  /\ updated' = IF res.outcome = "ok"
                  THEN SetCount(updated, file_data.id, 0) ELSE updated
  /\ UNCHANGED << blobs, now, pc, req, issued >>

\* DynamoHandler.get_file(file_id)
Dynamo_get_file(p, file_id) ==
  /\ pc[p] = "idle"
  /\ ret' = Response("get_file", file_id, NoItem, "ok", 0,
                   GetItem(table, file_id))
  /\ UNCHANGED << table, blobs, now, pc, req, fresh, created, updated, issued >>

\* DynamoHandler.update_file(file_id, update_data), up to its get_file: a
\* missing item ends the call with the "not found" ValueError
Dynamo_update_file_read(p, file_id, update_data) ==
  LET current_file == GetItem(table, file_id) IN
  /\ pc[p] = "idle"
  /\ IF current_file = NoItem
       THEN /\ ret' = Response("update_file", file_id, update_data, "NotFound",
                                 0, NoItem)
            /\ UNCHANGED << pc, req >>
       ELSE /\ pc' = [pc EXCEPT ![p] = "update_item"]
            /\ req' = [req EXCEPT ![p] =
                 [op |-> "update_file", id |-> file_id, data |-> update_data,
                  current_version |-> DictGet(current_file, "version", 0)]]
            /\ UNCHANGED ret
  /\ UNCHANGED << table, blobs, now, fresh, created, updated, issued >>

\* DynamoHandler.update_file from its update_item call to its return
Dynamo_update_file_write(p) ==
  LET res == UpdateItem(table, req[p].id, req[p].data, now,
                        req[p].current_version) IN
  /\ pc[p] = "update_item"
  /\ table' = res.table
  /\ ret' = Response("update_file", req[p].id, req[p].data, res.outcome, 0,
                   res.item)
  /\ pc' = [pc EXCEPT ![p] = "idle"]
  /\ req' = [req EXCEPT ![p] = NoReq]
  /\ fresh' = IF res.outcome = "ok" THEN Touched(req[p].id) ELSE fresh
  /\ updated' = IF res.outcome = "ok"
                  THEN SetCount(updated, req[p].id,
                                Count(updated, req[p].id) + 1)
                  ELSE updated
  /\ UNCHANGED << blobs, now, created, issued >>

\* DynamoHandler.delete_file(file_id)
Dynamo_delete_file(p, file_id) ==
  LET res == DeleteFile(table, file_id) IN
  /\ pc[p] = "idle"
  /\ table' = res.table
  /\ ret' = Response("delete_file", file_id, NoItem, res.outcome, 0, NoItem)
  /\ fresh' = IF res.outcome = "ok" THEN Touched(file_id) ELSE fresh
  /\ created' = IF res.outcome = "ok"
                  THEN DropCount(created, file_id) ELSE created
  /\ updated' = IF res.outcome = "ok"
                  THEN DropCount(updated, file_id) ELSE updated
  /\ UNCHANGED << blobs, now, pc, req, issued >>

\* clients calling the metadata store concurrently
Next ==
  \/ Tick /\ UNCHANGED << hist, batch >>
  \/ \E p \in Procs, i \in FileIds : \E fd \in FileData(i) :
       Dynamo_create_file(p, fd) /\ UNCHANGED << hist, batch >>
  \/ \E p \in Procs, i \in FileIds :
       Dynamo_get_file(p, i) /\ UNCHANGED << hist, batch >>
  \/ \E p \in Procs, i \in FileIds : \E u \in Patches :
       Dynamo_update_file_read(p, i, u) /\ UNCHANGED << hist, batch >>
  \/ \E p \in Procs :
       Dynamo_update_file_write(p) /\ UNCHANGED << hist, batch >>
  \/ \E p \in Procs, i \in FileIds :
       Dynamo_delete_file(p, i) /\ UNCHANGED << hist, batch >>

Spec == Init /\ [][Next]_vars

(* ------------------------ app.py: the handlers ------------------------ *)

\* allowed_updates = ['name', 'description', 'tags']
allowed_updates == {"name", "description", "tags"}

\* the uploaded file: filename, content type and length of the stream
UploadName == "x.txt"
UploadType == "text/plain"
UploadLength == 10

\* the body sent to PUT /files/{file_id}: allow-listed fields, one of them not
\* stored yet, and fields outside the allow-list
Bodies ==
  { [name |-> "z.txt", description |-> "d", content_type |-> "image/png",
     status |-> "deleted", size |-> 99] }

\* {k: v for k, v in file_data.items() if k in allowed_updates}
FilterAllowed(file_data) ==
  [k \in DOMAIN file_data \cap allowed_updates |-> file_data[k]]

\* "if not file_metadata: raise HTTPException(status_code=404, ...)" reads the
\* item as a truth value
Found(file_metadata) == file_metadata # NoItem

\* A handler's "except Exception" catches every exception raised in its try
\* block, the HTTPException(status_code=404) of the existence check included,
\* and raises HTTPException(status_code=500, detail=str(e)).
HandlerStatus(outcome) == IF outcome = "ok" THEN 200 ELSE 500

\* upload_file up to s3.upload_fileobj: file_id = str(uuid.uuid4())
App_upload_fileobj(p) ==
  /\ pc[p] = "idle"
  /\ \E file_id \in UploadIds \ issued :
       /\ issued' = issued \cup {file_id}
       /\ blobs' = SetCount(blobs, file_id, UploadLength)
       /\ req' = [req EXCEPT ![p] = [op |-> "upload_file", id |-> file_id]]
  /\ pc' = [pc EXCEPT ![p] = "app_head_object"]
  /\ UNCHANGED << table, now, ret, fresh, created, updated >>

\* upload_file: s3.head_object and the file_metadata dict
App_upload_head_object(p) ==
  /\ pc[p] = "app_head_object"
  /\ IF req[p].id \in DOMAIN blobs
       THEN /\ pc' = [pc EXCEPT ![p] = "app_create_file"]
            /\ req' = [req EXCEPT ![p] =
                 [op |-> "upload_file", id |-> req[p].id,
                  data |-> [id |-> req[p].id, name |-> UploadName,
                            size |-> blobs[req[p].id],
                            content_type |-> UploadType,
                            last_modified |-> now, s3_key |-> req[p].id,
                            status |-> "active"]]]
            /\ UNCHANGED ret
       ELSE /\ pc' = [pc EXCEPT ![p] = "idle"]
            /\ req' = [req EXCEPT ![p] = NoReq]
            /\ ret' = Response("app_upload_file", req[p].id, NoItem,
                               "ClientError", HandlerStatus("ClientError"),
                               NoItem)
  /\ UNCHANGED << table, blobs, now, fresh, created, updated, issued >>

\* upload_file: dynamo_handler.create_file(file_metadata) and the response
App_upload_create_file(p) ==
  LET res == CreateFile(table, req[p].data, now) IN
  /\ pc[p] = "app_create_file"
  /\ table' = res.table
  /\ ret' = Response("app_upload_file", req[p].id, req[p].data, res.outcome,
                     HandlerStatus(res.outcome), NoItem)
  /\ pc' = [pc EXCEPT ![p] = "idle"]
  /\ req' = [req EXCEPT ![p] = NoReq]
  /\ fresh' = IF res.outcome = "ok" THEN Touched(req[p].id) ELSE fresh
  /\ created' = IF res.outcome = "ok"
                  THEN SetCount(created, req[p].id,
                                Count(created, req[p].id) + 1)
                  ELSE created
  /\ updated' = IF res.outcome = "ok"
                  THEN SetCount(updated, req[p].id, 0) ELSE updated
  /\ UNCHANGED << blobs, now, issued >>

\* get_file: the metadata and a presigned URL (signed locally, no store call)
App_get_file(p, file_id) ==
  LET file_metadata == GetItem(table, file_id)
      outcome == IF Found(file_metadata) THEN "ok" ELSE "HTTP404" IN
  /\ pc[p] = "idle"
  /\ ret' = Response("app_get_file", file_id, NoItem, outcome,
                     HandlerStatus(outcome), file_metadata)
  /\ UNCHANGED << table, blobs, now, pc, req, fresh, created, updated, issued >>

\* delete_file up to its existence check
App_delete_check(p, file_id) ==
  /\ pc[p] = "idle"
  /\ IF Found(GetItem(table, file_id))
       THEN /\ pc' = [pc EXCEPT ![p] = "app_delete_object"]
            /\ req' = [req EXCEPT ![p] = [op |-> "delete_file", id |-> file_id]]
            /\ UNCHANGED ret
       ELSE /\ ret' = Response("app_delete_file", file_id, NoItem, "HTTP404",
                               HandlerStatus("HTTP404"), NoItem)
            /\ UNCHANGED << pc, req >>
  /\ UNCHANGED << table, blobs, now, fresh, created, updated, issued >>

\* delete_file: s3.delete_object (which succeeds on a missing key too)
App_delete_object(p) ==
  /\ pc[p] = "app_delete_object"
  /\ blobs' = DropCount(blobs, req[p].id)
  /\ pc' = [pc EXCEPT ![p] = "app_delete_item"]
  /\ UNCHANGED << table, now, req, ret, fresh, created, updated, issued >>

\* delete_file: dynamo_handler.delete_file(file_id) and the response
App_delete_item(p) ==
  LET res == DeleteFile(table, req[p].id) IN
  /\ pc[p] = "app_delete_item"
  /\ table' = res.table
  /\ ret' = Response("app_delete_file", req[p].id, NoItem, res.outcome,
                     HandlerStatus(res.outcome), NoItem)
  /\ pc' = [pc EXCEPT ![p] = "idle"]
  /\ req' = [req EXCEPT ![p] = NoReq]
  /\ fresh' = IF res.outcome = "ok" THEN Touched(req[p].id) ELSE fresh
  /\ created' = IF res.outcome = "ok"
                  THEN DropCount(created, req[p].id) ELSE created
  /\ updated' = IF res.outcome = "ok"
                  THEN DropCount(updated, req[p].id) ELSE updated
  /\ UNCHANGED << blobs, now, issued >>

\* update_file up to its existence check and the filtered update_data
App_update_check(p, file_id, file_data) ==
  /\ pc[p] = "idle"
  /\ IF Found(GetItem(table, file_id))
       THEN /\ pc' = [pc EXCEPT ![p] = "app_update_get"]
            /\ req' = [req EXCEPT ![p] =
                 [op |-> "update_file", id |-> file_id, body |-> file_data,
                  data |-> SetFields(FilterAllowed(file_data),
                                     [last_modified |-> now])]]
            /\ UNCHANGED ret
       ELSE /\ ret' = Response("app_update_file", file_id, file_data,
                               "HTTP404", HandlerStatus("HTTP404"), NoItem)
            /\ UNCHANGED << pc, req >>
  /\ UNCHANGED << table, blobs, now, fresh, created, updated, issued >>

\* update_file: the get_file inside dynamo_handler.update_file
App_update_get(p) ==
  LET current_file == GetItem(table, req[p].id) IN
  /\ pc[p] = "app_update_get"
  /\ IF current_file = NoItem
       THEN /\ ret' = Response("app_update_file", req[p].id, req[p].body,
                               "NotFound", HandlerStatus("NotFound"), NoItem)
            /\ pc' = [pc EXCEPT ![p] = "idle"]
            /\ req' = [req EXCEPT ![p] = NoReq]
       ELSE /\ pc' = [pc EXCEPT ![p] = "app_update_item"]
            /\ req' = [req EXCEPT ![p] =
                 [op |-> "update_file", id |-> req[p].id,
                  body |-> req[p].body, data |-> req[p].data,
                  current_version |-> DictGet(current_file, "version", 0)]]
            /\ UNCHANGED ret
  /\ UNCHANGED << table, blobs, now, fresh, created, updated, issued >>

\* update_file: the update_item inside dynamo_handler.update_file and the
\* response
App_update_item(p) ==
  LET res == UpdateItem(table, req[p].id, req[p].data, now,
                        req[p].current_version) IN
  /\ pc[p] = "app_update_item"
  /\ table' = res.table
  /\ ret' = Response("app_update_file", req[p].id, req[p].body, res.outcome,
                     HandlerStatus(res.outcome), res.item)
  /\ pc' = [pc EXCEPT ![p] = "idle"]
  /\ req' = [req EXCEPT ![p] = NoReq]
  /\ fresh' = IF res.outcome = "ok" THEN Touched(req[p].id) ELSE fresh
  /\ updated' = IF res.outcome = "ok"
                  THEN SetCount(updated, req[p].id,
                                Count(updated, req[p].id) + 1)
                  ELSE updated
  /\ UNCHANGED << blobs, now, created, issued >>

\* Concurrent HTTP requests.  The handlers read the clock only to stamp
\* last_modified, created_at and updated_at and never read a stamp back, so
\* the clock stands still here: every stamp of a behaviour is the same.
NextService ==
  \/ \E p \in Procs : App_upload_fileobj(p) /\ UNCHANGED << hist, batch >>
  \/ \E p \in Procs : App_upload_head_object(p) /\ UNCHANGED << hist, batch >>
  \/ \E p \in Procs : App_upload_create_file(p) /\ UNCHANGED << hist, batch >>
  \/ \E p \in Procs, i \in UploadIds :
       App_get_file(p, i) /\ UNCHANGED << hist, batch >>
  \/ \E p \in Procs, i \in UploadIds :
       App_delete_check(p, i) /\ UNCHANGED << hist, batch >>
  \/ \E p \in Procs : App_delete_object(p) /\ UNCHANGED << hist, batch >>
  \/ \E p \in Procs : App_delete_item(p) /\ UNCHANGED << hist, batch >>
  \/ \E p \in Procs, i \in UploadIds : \E b \in Bodies :
       App_update_check(p, i, b) /\ UNCHANGED << hist, batch >>
  \/ \E p \in Procs : App_update_get(p) /\ UNCHANGED << hist, batch >>
  \/ \E p \in Procs : App_update_item(p) /\ UNCHANGED << hist, batch >>

SpecService == Init /\ [][NextService]_vars

(* ------------------- app.py: store calls that raise -------------------- *)
\* A call of S3 or DynamoDB may raise for a reason of its own (throttling, a
\* lost connection).  The call then has had no effect, the exception reaches
\* the handler's "except Exception", and the request ends with HTTP 500.

\* mutant: put_item has stored the item when the exception is raised
CreateFileRaisesAfterWrite(tbl, file_data, t) ==
  [outcome |-> "ClientError", table |-> TablePut(tbl, Stamp(file_data, t)),
   item |-> NoItem]

\* create_file when put_item raises: "except Exception: ... raise"
CreateFileRaises(tbl, file_data, t) ==
  [outcome |-> "ClientError", table |-> tbl, item |-> NoItem]

\* mutant: delete_item has removed the item when the exception is raised
DeleteFileRaisesAfterWrite(tbl, file_id) ==
  [outcome |-> "ClientError", table |-> TableRemove(tbl, {file_id})]

\* delete_file when delete_item raises: "except Exception: ... raise"
DeleteFileRaises(tbl, file_id) ==
  [outcome |-> "ClientError", table |-> tbl]

\* the response of a handler whose store call raised
Failure(op, file_id, call) ==
  Response(op, file_id, [failed_at |-> call], "ClientError",
           HandlerStatus("ClientError"), NoItem)

\* upload_file: s3.upload_fileobj raises, no object is stored
Fault_upload_fileobj(p) ==
  /\ pc[p] = "idle"
  /\ \E file_id \in UploadIds \ issued :
       /\ issued' = issued \cup {file_id}
       /\ ret' = Failure("app_upload_file", file_id, "upload_fileobj")
  /\ UNCHANGED << table, blobs, now, pc, req, fresh, created, updated >>

\* upload_file: s3.head_object raises
Fault_upload_head_object(p) ==
  /\ pc[p] = "app_head_object"
  /\ ret' = Failure("app_upload_file", req[p].id, "head_object")
  /\ pc' = [pc EXCEPT ![p] = "idle"]
  /\ req' = [req EXCEPT ![p] = NoReq]
  /\ UNCHANGED << table, blobs, now, fresh, created, updated, issued >>

\* upload_file: dynamo_handler.create_file raises
Fault_upload_create_file(p) ==
  LET res == CreateFileRaises(table, req[p].data, now) IN
  /\ pc[p] = "app_create_file"
  /\ table' = res.table
  /\ ret' = Failure("app_upload_file", req[p].id, "create_file")
  /\ pc' = [pc EXCEPT ![p] = "idle"]
  /\ req' = [req EXCEPT ![p] = NoReq]
  /\ UNCHANGED << blobs, now, fresh, created, updated, issued >>

\* get_file, delete_file, update_file: the dynamo_handler.get_file they start
\* with raises
Fault_get_file(p, op, file_id) ==
  /\ pc[p] = "idle"
  /\ ret' = Failure(op, file_id, "get_file")
  /\ UNCHANGED << table, blobs, now, pc, req, fresh, created, updated, issued >>

\* delete_file: s3.delete_object raises
Fault_delete_object(p) ==
  /\ pc[p] = "app_delete_object"
  /\ ret' = Failure("app_delete_file", req[p].id, "delete_object")
  /\ pc' = [pc EXCEPT ![p] = "idle"]
  /\ req' = [req EXCEPT ![p] = NoReq]
  /\ UNCHANGED << table, blobs, now, fresh, created, updated, issued >>

\* delete_file: dynamo_handler.delete_file raises
Fault_delete_item(p) ==
  LET res == DeleteFileRaises(table, req[p].id) IN
  /\ pc[p] = "app_delete_item"
  /\ table' = res.table
  /\ ret' = Failure("app_delete_file", req[p].id, "delete_item")
  /\ pc' = [pc EXCEPT ![p] = "idle"]
  /\ req' = [req EXCEPT ![p] = NoReq]
  /\ UNCHANGED << blobs, now, fresh, created, updated, issued >>

\* update_file: a store call inside dynamo_handler.update_file raises
Fault_update_file(p) ==
  /\ pc[p] \in {"app_update_get", "app_update_item"}
  /\ ret' = Failure("app_update_file", req[p].id,
                    IF pc[p] = "app_update_get" THEN "get_file"
                                                ELSE "update_item")
  /\ pc' = [pc EXCEPT ![p] = "idle"]
  /\ req' = [req EXCEPT ![p] = NoReq]
  /\ UNCHANGED << table, blobs, now, fresh, created, updated, issued >>

\* the operations of the File Service that start with get_file
Lookups == {"app_get_file", "app_delete_file", "app_update_file"}

\* Concurrent HTTP requests whose store calls may raise, on the ids of
\* FaultIds.
NextFaults ==
  \/ \E p \in Procs :
       /\ App_upload_fileobj(p)
       /\ req'[p].id \in FaultIds
       /\ UNCHANGED << hist, batch >>
  \/ \E p \in Procs : App_upload_head_object(p) /\ UNCHANGED << hist, batch >>
  \/ \E p \in Procs : App_upload_create_file(p) /\ UNCHANGED << hist, batch >>
  \/ \E p \in Procs, i \in FaultIds :
       App_get_file(p, i) /\ UNCHANGED << hist, batch >>
  \/ \E p \in Procs, i \in FaultIds :
       App_delete_check(p, i) /\ UNCHANGED << hist, batch >>
  \/ \E p \in Procs : App_delete_object(p) /\ UNCHANGED << hist, batch >>
  \/ \E p \in Procs : App_delete_item(p) /\ UNCHANGED << hist, batch >>
  \/ \E p \in Procs, i \in FaultIds : \E b \in Bodies :
       App_update_check(p, i, b) /\ UNCHANGED << hist, batch >>
  \/ \E p \in Procs : App_update_get(p) /\ UNCHANGED << hist, batch >>
  \/ \E p \in Procs : App_update_item(p) /\ UNCHANGED << hist, batch >>
  \/ \E p \in Procs :
       /\ Fault_upload_fileobj(p)
       /\ ret'.id \in FaultIds
       /\ UNCHANGED << hist, batch >>
  \/ \E p \in Procs :
       Fault_upload_head_object(p) /\ UNCHANGED << hist, batch >>
  \/ \E p \in Procs :
       Fault_upload_create_file(p) /\ UNCHANGED << hist, batch >>
  \/ \E p \in Procs, i \in FaultIds : \E op \in Lookups :
       Fault_get_file(p, op, i) /\ UNCHANGED << hist, batch >>
  \/ \E p \in Procs : Fault_delete_object(p) /\ UNCHANGED << hist, batch >>
  \/ \E p \in Procs : Fault_delete_item(p) /\ UNCHANGED << hist, batch >>
  \/ \E p \in Procs : Fault_update_file(p) /\ UNCHANGED << hist, batch >>

SpecFaults == Init /\ [][NextFaults]_vars

(* ---------------------- list_files, called directly -------------------- *)

\* DynamoHandler.list_files(limit, last_evaluated_key)
Dynamo_list_files(p, limit, last_evaluated_key) ==
  LET res == ListFiles(table, limit, last_evaluated_key) IN
  /\ pc[p] = "idle"
  /\ ret' = [Response("list_files", last_evaluated_key,
                      [limit |-> limit,
                       last_evaluated_key |-> last_evaluated_key],
                      res.outcome, 0, NoItem)
               EXCEPT !.page = res.page, !.cursor = res.cursor]
  /\ UNCHANGED << table, blobs, now, pc, req, fresh, created, updated, issued >>

\* clients creating, deleting and listing records
NextList ==
  \/ \E p \in Procs, i \in ListIds : \E fd \in FileData(i) :
       Dynamo_create_file(p, fd) /\ UNCHANGED << hist, batch >>
  \/ \E p \in Procs, i \in ListIds :
       Dynamo_delete_file(p, i) /\ UNCHANGED << hist, batch >>
  \/ \E p \in Procs, limit \in 0..MaxLimit, c \in {NoKey} \cup ListIds :
       Dynamo_list_files(p, limit, c) /\ UNCHANGED << hist, batch >>

SpecList == Init /\ [][NextList]_vars

(* ------------------ batch_delete_files, called directly ---------------- *)
\* One caller; every id of BatchIds is stored when the call starts.

InitBatch ==
  /\ table = [i \in BatchIds |->
                Stamp([id |-> i, name |-> UploadName, size |-> UploadLength,
                       content_type |-> UploadType, s3_key |-> i,
                       status |-> "active"], 0)]
  /\ blobs = [i \in BatchIds |-> UploadLength]
  /\ now = 0
  /\ pc = [p \in Procs |-> "idle"]
  /\ req = [p \in Procs |-> NoReq]
  /\ ret = Response("none", NoKey, NoItem, "ok", 0, NoItem)
  /\ fresh = NoItem
  /\ created = [i \in BatchIds |-> 1]
  /\ updated = [i \in BatchIds |-> 0]
  /\ issued = BatchIds
  /\ hist = [p \in Procs |-> NoReq]
  /\ batch = NoReq

\* batch_writer's flush: one BatchWriteItem round of unconditional deletes
Flushed(b) ==
  [b EXCEPT !.buffer = << >>, !.rounds = @ + 1]

\* batch_delete_files(file_ids) up to the with statement
Batch_delete_files(file_ids) ==
  /\ batch = NoReq
  /\ batch' = [op |-> "loop", given |-> file_ids, ids |-> Truncate(file_ids),
               n |-> 0, buffer |-> << >>, rounds |-> 0]
  /\ UNCHANGED << table, blobs, now, pc, req, ret, fresh, created, updated,
                  issued, hist >>

\* one pass of the for loop: batch.delete_item buffers the key and flushes
\* the buffer when it holds BatchWriteLimit keys
Batch_delete_item ==
  /\ batch.op = "loop"
  /\ batch.n < Len(batch.ids)
  /\ LET b == [batch EXCEPT !.n = @ + 1,
                            !.buffer = Append(@, batch.ids[batch.n + 1])] IN
     IF Len(b.buffer) >= BatchWriteLimit
       THEN /\ batch' = Flushed(b)
            /\ table' = TableRemove(table, Range(b.buffer))
            /\ created' = [i \in DOMAIN created \ Range(b.buffer) |-> created[i]]
            /\ updated' = [i \in DOMAIN updated \ Range(b.buffer) |-> updated[i]]
       ELSE /\ batch' = b
            /\ UNCHANGED << table, created, updated >>
  /\ UNCHANGED << blobs, now, pc, req, ret, fresh, issued, hist >>

\* the end of the with statement flushes what the buffer still holds; the
\* call returns the truncated list
Batch_exit ==
  /\ batch.op = "loop"
  /\ batch.n = Len(batch.ids)
  /\ IF batch.buffer # << >>
       THEN /\ batch' = [Flushed(batch) EXCEPT !.op = "done"]
            /\ table' = TableRemove(table, Range(batch.buffer))
            /\ created' = [i \in DOMAIN created \ Range(batch.buffer) |-> created[i]]
            /\ updated' = [i \in DOMAIN updated \ Range(batch.buffer) |-> updated[i]]
       ELSE /\ batch' = [batch EXCEPT !.op = "done"]
            /\ UNCHANGED << table, created, updated >>
  /\ ret' = [Response("batch_delete_files", NoKey, NoItem, "ok", 0, NoItem)
               EXCEPT !.page = batch.ids]
  /\ UNCHANGED << blobs, now, pc, req, fresh, issued, hist >>

NextBatch ==
  \/ \E m \in 0..(BatchWriteLimit + MaxExtraIds) :
       Batch_delete_files([k \in 1..m |-> k])
  \/ Batch_delete_item
  \/ Batch_exit

SpecBatch == InitBatch /\ [][NextBatch]_vars

(* -------------------------- batch_operation --------------------------- *)
\* One POST /files/batch request; some of the ids of UploadIds are stored.

\* the request slot the batch request runs in
BatchCaller == 1

\* the values of operation.get('type') sent
OpTypes == {"delete", "archive"}

\* the operations a client may send
Operations == [type : OpTypes, file_id : UploadIds]

\* the lists of at most n operations
RECURSIVE OperationLists(_)
OperationLists(n) ==
  IF n = 0 THEN {<< >>}
  ELSE LET shorter == OperationLists(n - 1) IN
       shorter \cup {Append(l, o) : l \in shorter, o \in Operations}

InitBatchOp ==
  \E stored \in SUBSET UploadIds :
    /\ table = [i \in stored |->
                  Stamp([id |-> i, name |-> UploadName, size |-> UploadLength,
                         content_type |-> UploadType, last_modified |-> 0,
                         s3_key |-> i, status |-> "active"], 0)]
    /\ blobs = [i \in stored |-> UploadLength]
    /\ now = 0
    /\ pc = [p \in Procs |-> "idle"]
    /\ req = [p \in Procs |-> NoReq]
    /\ ret = Response("none", NoKey, NoItem, "ok", 0, NoItem)
    /\ fresh = NoItem
    /\ created = [i \in stored |-> 1]
    /\ updated = [i \in stored |-> 0]
    /\ issued = UploadIds
    /\ hist = [p \in Procs |-> NoReq]
    /\ batch = NoReq

\* one entry of results
Result(operation, status) ==
  [file_id |-> operation.file_id, operation |-> operation.type,
   status |-> status]

\* "except Exception" of batch_operation: the request is answered with
\* HTTPException(status_code=500), which carries no results
BatchRaised(b) ==
  [b EXCEPT !.op = "done", !.http = HandlerStatus(ret'.outcome),
            !.response = << >>]

\* batch_operation(operations): results = []
BatchOp_start(operations) ==
  /\ batch = NoReq
  /\ batch' = [op |-> "loop", operations |-> operations, n |-> 0,
               results |-> << >>, http |-> 0, response |-> << >>]
  /\ UNCHANGED << table, blobs, now, pc, req, ret, fresh, created, updated,
                  issued, hist >>

\* one pass of the for loop, up to the existence check of delete_file for an
\* operation of type delete, to the append for any other type
BatchOp_operation ==
  /\ batch.op = "loop"
  /\ batch.n < Len(batch.operations)
  /\ LET operation == batch.operations[batch.n + 1]
         b == [batch EXCEPT !.n = @ + 1] IN
     IF operation.type = "delete"
       THEN /\ App_delete_check(BatchCaller, operation.file_id)
            /\ batch' = IF pc'[BatchCaller] = "idle"
                          THEN BatchRaised(b)
                          ELSE [b EXCEPT !.op = "delete_file"]
       ELSE /\ batch' = [b EXCEPT !.results =
                           Append(@, Result(operation, "unsupported"))]
            /\ UNCHANGED << table, blobs, now, pc, req, ret, fresh, created,
                            updated, issued >>
  /\ UNCHANGED hist

\* await delete_file(file_id): s3.delete_object
BatchOp_delete_object ==
  /\ batch.op = "delete_file"
  /\ App_delete_object(BatchCaller)
  /\ UNCHANGED << hist, batch >>

\* await delete_file(file_id): dynamo_handler.delete_file, then the append
BatchOp_delete_item ==
  /\ batch.op = "delete_file"
  /\ App_delete_item(BatchCaller)
  /\ batch' = IF ret'.http = 200
                THEN [batch EXCEPT !.op = "loop", !.results =
                        Append(@, Result(batch.operations[batch.n],
                                         "success"))]
                ELSE BatchRaised(batch)
  /\ UNCHANGED hist

\* return {"results": results}
BatchOp_return ==
  /\ batch.op = "loop"
  /\ batch.n = Len(batch.operations)
  /\ batch' = [batch EXCEPT !.op = "done", !.http = 200,
                            !.response = batch.results]
  /\ UNCHANGED << table, blobs, now, pc, req, ret, fresh, created, updated,
                  issued, hist >>

NextBatchOp ==
  \/ \E operations \in OperationLists(MaxOps) : BatchOp_start(operations)
  \/ BatchOp_operation
  \/ BatchOp_delete_object
  \/ BatchOp_delete_item
  \/ BatchOp_return

SpecBatchOp == InitBatchOp /\ [][NextBatchOp]_vars

(* -------------------- batch_get_files, called directly ----------------- *)
\* One caller; the ids of ReadIds are stored, all of them or all but the last
\* id of the first hundred or the first id after it.

\* file_ids = file_ids[:100]
TruncateRead(file_ids) ==
  SubSeq(file_ids, 1, Min(Len(file_ids), BatchReadLimit))

\* dynamodb.batch_get_item(...)['Responses'][table_name]: the stored items of
\* the keys asked for.  A request without keys is not sent (Keys holds 1 to
\* 100 keys).
BatchGetItem(tbl, keys) ==
  IF keys = << >>
    THEN [outcome |-> "ClientError", items |-> << >>, rounds |-> 0]
    ELSE LET found == SelectSeq(keys, LAMBDA i : i \in DOMAIN tbl) IN
         [outcome |-> "ok",
          items |-> [k \in 1..Len(found) |-> tbl[found[k]]],
          rounds |-> 1]

InitBatchGet ==
  \E missing \in {{}, {BatchReadLimit}, {BatchReadLimit + 1}} :
    /\ table = [i \in ReadIds \ missing |->
                  Stamp([id |-> i, name |-> UploadName, size |-> UploadLength,
                         content_type |-> UploadType, s3_key |-> i,
                         status |-> "active"], 0)]
    /\ blobs = [i \in ReadIds \ missing |-> UploadLength]
    /\ now = 0
    /\ pc = [p \in Procs |-> "idle"]
    /\ req = [p \in Procs |-> NoReq]
    /\ ret = Response("none", NoKey, NoItem, "ok", 0, NoItem)
    /\ fresh = NoItem
    /\ created = [i \in ReadIds \ missing |-> 1]
    /\ updated = [i \in ReadIds \ missing |-> 0]
    /\ issued = ReadIds
    /\ hist = [p \in Procs |-> NoReq]
    /\ batch = NoReq

\* DynamoHandler.batch_get_files(file_ids)
Dynamo_batch_get_files(file_ids) ==
  LET res == BatchGetItem(table, TruncateRead(file_ids)) IN
  /\ ret' = [Response("batch_get_files", NoKey,
                      [file_ids |-> file_ids, rounds |-> res.rounds],
                      res.outcome, 0, NoItem)
               EXCEPT !.page = res.items]
  /\ UNCHANGED << table, blobs, now, pc, req, fresh, created, updated, issued,
                  hist, batch >>

NextBatchGet ==
  \E m \in 0..(BatchReadLimit + MaxExtraIds) :
    Dynamo_batch_get_files([k \in 1..m |-> k])

SpecBatchGet == InitBatchGet /\ [][NextBatchGet]_vars

(* ------------------------ paging through list_files ------------------- *)
\* One client reads the whole list: it calls list_files without a cursor and
\* then with the cursor of each answer, until an answer carries none.  The
\* table does not change meanwhile.

\* the tables over the ids of ListIds
Tables ==
  UNION {[S -> UNION {{Stamp(fd, 0) : fd \in FileData(i)} : i \in S}] :
           S \in SUBSET ListIds}

InitPaging ==
  /\ table \in {tbl \in Tables : \A i \in DOMAIN tbl : tbl[i].id = i}
  /\ blobs = EmptyCount
  /\ now = 0
  /\ pc = [p \in Procs |-> "idle"]
  /\ req = [p \in Procs |-> NoReq]
  /\ ret = Response("none", NoKey, NoItem, "ok", 0, NoItem)
  /\ fresh = NoItem
  /\ created = [i \in DOMAIN table |-> 1]
  /\ updated = [i \in DOMAIN table |-> 0]
  /\ issued = {}
  /\ hist = [p \in Procs |-> NoReq]
  /\ batch = NoReq

\* the client picks its page size
Paging_start(limit) ==
  /\ batch = NoReq
  /\ batch' = [op |-> "paging", limit |-> limit, cursor |-> NoKey,
               seen |-> << >>, calls |-> 0]
  /\ UNCHANGED << table, blobs, now, pc, req, ret, fresh, created, updated,
                  issued, hist >>

\* one call of list_files with the cursor of the answer before
Paging_list_files(p) ==
  /\ batch.op = "paging"
  /\ Dynamo_list_files(p, batch.limit, batch.cursor)
  /\ batch' = [batch EXCEPT
       !.op = IF ret'.cursor = NoKey THEN "done" ELSE "paging",
       !.cursor = ret'.cursor,
       !.seen = @ \o [k \in 1..Len(ret'.page) |-> ret'.page[k].id],
       !.calls = @ + 1]
  /\ UNCHANGED hist

NextPaging ==
  \/ \E limit \in 1..MaxLimit : Paging_start(limit)
  \/ \E p \in Procs : Paging_list_files(p)

\* the client goes on calling until an answer carries no cursor
SpecPaging ==
  /\ InitPaging
  /\ [][NextPaging]_vars
  /\ WF_vars(\E p \in Procs : Paging_list_files(p))

(* ------------------------- the update race ---------------------------- *)
\* One record is stored and every caller makes one update_file call on it.

InitRace ==
  \E i \in FileIds : \E fd \in FileData(i) : \E t \in Times :
    /\ table = CreateFile(EmptyTable, fd, t).table
    /\ blobs = EmptyCount
    /\ now \in t..MaxClock
    /\ pc = [p \in Procs |-> "idle"]
    /\ req = [p \in Procs |-> NoReq]
    /\ ret = Response("create_file", i, fd, "ok", 0, Stamp(fd, t))
    /\ fresh = fd
    /\ created = SetCount(EmptyCount, i, 1)
    /\ updated = SetCount(EmptyCount, i, 0)
    /\ issued = {}
      /\ hist = [p \in Procs |-> [op |-> "pending"]]
    /\ batch = NoReq

RaceRead(p, update_data) ==
  /\ hist[p].op = "pending"
  /\ \E i \in DOMAIN table : Dynamo_update_file_read(p, i, update_data)
  /\ hist' = [hist EXCEPT ![p] =
       [op |-> "reading", version |-> req'[p].current_version]]
  /\ UNCHANGED batch

RaceWrite(p) ==
  /\ Dynamo_update_file_write(p)
  /\ hist' = [hist EXCEPT ![p] =
       [op |-> "done", version |-> hist[p].version, outcome |-> ret'.outcome]]
  /\ UNCHANGED batch

NextRace ==
  \/ Tick /\ UNCHANGED << hist, batch >>
  \/ \E p \in Procs : \E u \in Patches : RaceRead(p, u)
  \/ \E p \in Procs : RaceWrite(p)

SpecRace == InitRace /\ [][NextRace]_vars

(* ------------------------- the delete race ---------------------------- *)
\* Every id of UploadIds has been uploaded; every caller sends one DELETE
\* request, all for the same id, and no store call raises.

InitDeleteRace ==
  \E i \in UploadIds : \E t \in Times :
    /\ table = [j \in UploadIds |->
                  Stamp([id |-> j, name |-> UploadName, size |-> UploadLength,
                         content_type |-> UploadType, last_modified |-> t,
                         s3_key |-> j, status |-> "active"], t)]
    /\ blobs = [j \in UploadIds |-> UploadLength]
    /\ now \in t..MaxClock
    /\ pc = [p \in Procs |-> "idle"]
    /\ req = [p \in Procs |-> NoReq]
    /\ ret = Response("none", NoKey, NoItem, "ok", 0, NoItem)
    /\ fresh = NoItem
    /\ created = [j \in UploadIds |-> 1]
    /\ updated = [j \in UploadIds |-> 0]
    /\ issued = UploadIds
    /\ hist = [p \in Procs |-> [op |-> "pending", id |-> i]]
    /\ batch = NoReq

\* the caller's record of a request that has been answered
Answered(p) == [op |-> "done", id |-> hist[p].id, http |-> ret'.http]

DeleteRaceCheck(p) ==
  /\ hist[p].op = "pending"
  /\ App_delete_check(p, hist[p].id)
  /\ hist' = [hist EXCEPT ![p] =
       IF pc'[p] = "idle" THEN Answered(p)
                          ELSE [op |-> "sent", id |-> hist[p].id]]
  /\ UNCHANGED batch

DeleteRaceObject(p) ==
  /\ App_delete_object(p)
  /\ UNCHANGED << hist, batch >>

DeleteRaceItem(p) ==
  /\ App_delete_item(p)
  /\ hist' = [hist EXCEPT ![p] = Answered(p)]
  /\ UNCHANGED batch

NextDeleteRace ==
  \/ Tick /\ UNCHANGED << hist, batch >>
  \/ \E p \in Procs : DeleteRaceCheck(p)
  \/ \E p \in Procs : DeleteRaceObject(p)
  \/ \E p \in Procs : DeleteRaceItem(p)

SpecDeleteRace == InitDeleteRace /\ [][NextDeleteRace]_vars

(* ------------------------------ claims -------------------------------- *)

\* the callers of the race that got outcome o
RaceOutcome(o) == {p \in Procs : hist[p].op = "done" /\ hist[p].outcome = o}

\* C1: when N concurrent update_file calls on one record have all read the
\* same stored version v and have all returned, exactly one of them has
\* succeeded, the other N-1 have failed with the concurrent-update error, and
\* the stored version is v + 1.
C1_OneWinnerPerVersion ==
  \A i \in DOMAIN table : \A v \in 0..2 :
    (\A p \in Procs : hist[p].op = "done" /\ hist[p].version = v)
      => /\ Cardinality(RaceOutcome("ok")) = 1
         /\ Cardinality(RaceOutcome("ConcurrentModification")) = NumProcs - 1
         /\ table[i].version = v + 1

\* C2: every stored record's version is 1 plus the number of update_file
\* calls that succeeded on it since it was created.
C2_VersionCountsUpdates ==
  \A i \in DOMAIN table :
    /\ "version" \in DOMAIN table[i]
    /\ table[i].version = 1 + Count(updated, i)

\* C2 witness: an update_file call has made its write attempt on a stored
\* record whose creator supplied a version of its own.
C2_Witness ==
  /\ ret.op = "update_file"
  /\ ret.outcome # "NotFound"
  /\ ret.id \in DOMAIN table
  /\ fresh # NoItem /\ fresh.id = ret.id /\ "version" \in DOMAIN fresh

\* C3: an update_file whose update_item finds the stored version different
\* from the version it read (the item gone included) fails with the
\* concurrent-update error and leaves the table as it was.
C3_StaleWriteRejected ==
  [][\A p \in Procs :
       ( /\ pc[p] = "update_item"
         /\ pc'[p] = "idle"
         /\ ~UpdateCondition(table, req[p].id, req[p].current_version) )
       => /\ ret'.outcome = "ConcurrentModification"
          /\ table' = table]_vars

\* the attributes create_file sets itself
StampedKeys == {"version", "created_at", "updated_at"}

\* item carries every attribute file_data supplied, the stamped ones aside
Agrees(item, file_data) ==
  \A f \in DOMAIN file_data \ StampedKeys :
    f \in DOMAIN item /\ item[f] = file_data[f]

\* C4: get_file after a successful create_file(r), with no write to r.id in
\* between, returns an item that agrees with r on every attribute r supplied
\* (version and timestamps aside) and has version 1 and created_at =
\* updated_at, whatever version and timestamps r carried.
C4_CreateThenGet ==
  (ret.op = "get_file" /\ fresh # NoItem /\ fresh.id = ret.id)
    => /\ ret.item # NoItem
       /\ Agrees(ret.item, fresh)
       /\ ret.item.version = 1
       /\ ret.item.created_at = ret.item.updated_at

\* C4 witness: get_file has returned right after the create_file of a record
\* that carried its own version and timestamps.
C4_Witness ==
  /\ ret.op = "get_file"
  /\ fresh # NoItem /\ fresh.id = ret.id
  /\ "version" \in DOMAIN fresh /\ fresh.version # 1
  /\ fresh.created_at # fresh.updated_at

\* C5: create_file on a stored id fails with AlreadyExists and leaves the
\* table as it was, create_file on an absent id stores its own record, and a
\* stored id has had exactly one successful create_file since it was absent.
C5_CreateIsExclusive ==
  /\ [](\A i \in FileIds :
          Count(created, i) = IF i \in DOMAIN table THEN 1 ELSE 0)
  /\ [][(ret' # ret /\ ret'.op = "create_file")
          => IF ret'.id \in DOMAIN table
               THEN ret'.outcome = "AlreadyExists" /\ table' = table
               ELSE /\ ret'.outcome = "ok"
                    /\ ret'.id \in DOMAIN table'
                    /\ Agrees(table'[ret'.id], ret'.arg)
                    /\ table'[ret'.id] = ret'.item]_vars

\* C5 witness: a create_file has just failed on an id whose stored record
\* came from a different file_data.
C5_Witness ==
  /\ ret.op = "create_file"
  /\ ret.outcome = "AlreadyExists"
  /\ ret.id \in DOMAIN table
  /\ table[ret.id].name # ret.arg.name

\* C6: the update_item step of update_file never changes the id, created_at
\* or size of the stored record, whatever update_data holds.
C6_UpdateKeepsKeyFields ==
  [][\A p \in Procs :
       (pc[p] = "update_item" /\ pc'[p] = "idle" /\ req[p].id \in DOMAIN table)
       => /\ req[p].id \in DOMAIN table'
          /\ \A f \in {"id", "created_at", "size"} :
               /\ f \in DOMAIN table[req[p].id] <=> f \in DOMAIN table'[req[p].id]
               /\ f \in DOMAIN table[req[p].id]
                    => table'[req[p].id][f] = table[req[p].id][f]]_vars

\* C6 witness: update_file has made its write attempt on a stored record with
\* an update_data that carries size.
C6_Witness ==
  /\ ret.op = "update_file"
  /\ ret.outcome # "NotFound"
  /\ ret.id \in DOMAIN table
  /\ "size" \in DOMAIN ret.arg

\* C7: when update_file of app.py reaches its update_item with the version
\* it read still stored, the request succeeds, every allow-listed field of
\* the body has the submitted value in the stored record, and every other
\* field of the body keeps the value it had.
C7_AllowListApplied ==
  [][\A p \in Procs :
       ( /\ pc[p] = "app_update_item"
         /\ pc'[p] = "idle"
         /\ UpdateCondition(table, req[p].id, req[p].current_version) )
       => /\ ret'.http = 200
          /\ req[p].id \in DOMAIN table'
          /\ \A k \in DOMAIN req[p].body :
               LET old == table[req[p].id]
                   new == table'[req[p].id] IN
               IF k \in allowed_updates
                 THEN k \in DOMAIN new /\ new[k] = req[p].body[k]
                 ELSE /\ k \in DOMAIN old <=> k \in DOMAIN new
                      /\ k \in DOMAIN old => new[k] = old[k]]_vars

\* C8: delete_file of DynamoHandler on an id that is not stored fails with
\* the "not found" error and changes neither the table nor the bucket; and
\* delete_file of app.py on such an id fails without getting to its
\* s3.delete_object call and changes neither the table nor the bucket.
C8_DeleteAbsentNoEffect ==
  [][\A p \in Procs :
       /\ ( /\ pc[p] = "app_delete_item"
            /\ pc'[p] = "idle"
            /\ req[p].id \notin DOMAIN table )
          => /\ ret'.outcome = "NotFound"
             /\ ret'.http # 200
             /\ table' = table
             /\ blobs' = blobs
       /\ (pc[p] = "idle" /\ pc'[p] = "app_delete_object")
          => req'[p].id \in DOMAIN table
       /\ ( /\ ret' # ret
            /\ ret'.op = "app_delete_file"
            /\ ret'.id \notin DOMAIN table )
          => /\ ret'.http # 200
             /\ table' = table
             /\ blobs' = blobs]_vars

\* C8 witness: a DELETE request has failed on an id that is neither stored
\* nor in the bucket while another record and its blob are stored.
C8_Witness ==
  /\ ret.op = "app_delete_file"
  /\ ret.http # 200
  /\ ret.id \notin DOMAIN table
  /\ ret.id \notin DOMAIN blobs
  /\ \E i \in DOMAIN table : i \in DOMAIN blobs

\* C9: every page list_files returns holds at most limit records, and every
\* record in it has status active.
C9_PageBoundedAndActive ==
  (ret.op = "list_files" /\ ret.outcome = "ok")
    => /\ Len(ret.page) <= ret.arg.limit
       /\ \A k \in 1..Len(ret.page) :
            "status" \in DOMAIN ret.page[k] /\ ret.page[k].status = "active"

\* C9 witness: list_files has returned a full page from a cursor, out of a
\* table that holds more records than the page, one of them not active.
C9_Witness ==
  /\ ret.op = "list_files"
  /\ ret.outcome = "ok"
  /\ ret.arg.last_evaluated_key # NoKey
  /\ Len(ret.page) = ret.arg.limit
  /\ Cardinality(DOMAIN table) > ret.arg.limit
  /\ \E i \in DOMAIN table : table[i].status # "active"

\* C10: when batch_delete_files(ids) has returned, none of ids is stored, and
\* a call with more than the 25 ids of one batch write has taken two rounds
\* or more.
C10_BatchDeletesAll ==
  batch.op = "done"
    => /\ \A k \in 1..Len(batch.given) : batch.given[k] \notin DOMAIN table
       /\ Len(batch.given) > BatchWriteLimit => batch.rounds >= 2

\* the response r reports that the store call named call raised
FailedAt(r, call) ==
  /\ r.outcome = "ClientError"
  /\ "failed_at" \in DOMAIN r.arg
  /\ r.arg.failed_at = call

\* C11: upload_file writes the blob before the record.  When one of its store
\* calls raises, the request fails and no record is stored under its id: the
\* table is as it was.  When s3.upload_fileobj raises, no blob is stored
\* either; when create_file raises after the blob was written, get_file finds
\* no item while the blob is in the bucket under the id.  So no failed upload
\* leaves a record without its blob.
C11_FailedUploadLeavesNoRecord ==
  /\ [][\A p \in Procs :
          (pc[p] = "idle" /\ pc'[p] = "app_head_object")
            => /\ req'[p].id \in DOMAIN blobs'
               /\ req'[p].id \notin DOMAIN table'
               /\ table' = table]_vars
  /\ [][(ret' # ret /\ ret'.op = "app_upload_file" /\ ret'.outcome # "ok")
          => /\ table' = table
             /\ GetItem(table', ret'.id) = NoItem
             /\ ret'.http # 200
             /\ FailedAt(ret', "upload_fileobj")
                  => ret'.id \notin DOMAIN blobs'
             /\ FailedAt(ret', "create_file")
                  => ret'.id \in DOMAIN blobs']_vars

\* C11 witness: an upload has failed in create_file; its blob is in the
\* bucket and no record is stored under its id.
C11_Witness ==
  /\ ret.op = "app_upload_file"
  /\ FailedAt(ret, "create_file")
  /\ ret.id \in DOMAIN blobs
  /\ ret.id \notin DOMAIN table

\* an upload of file_id has written the blob and not yet the record
Uploading(file_id) ==
  \E p \in Procs :
    /\ pc[p] \in {"app_head_object", "app_create_file"}
    /\ req[p].id = file_id

\* a delete of file_id has removed the blob and not yet the record
Deleting(file_id) ==
  \E p \in Procs : pc[p] = "app_delete_item" /\ req[p].id = file_id

\* C12: in every reachable state, whatever requests run concurrently and
\* whatever store calls raise, every stored record has its blob in the bucket
\* under its s3_key, unless an upload of its id is between the blob write and
\* the create_file or a delete of its id is between delete_object and the
\* delete of the record.
C12_RecordHasBlob ==
  \A i \in DOMAIN table :
    \/ table[i].s3_key \in DOMAIN blobs
    \/ Uploading(i)
    \/ Deleting(i)

\* r is the response of get_file, update_file or delete_file of app.py to a
\* request for an id that has no record
IsNotFound(r) == r.op \in Lookups /\ r.outcome \in {"HTTP404", "NotFound"}

\* r is the response of one of them to a store call that raised
IsTransient(r) ==
  /\ r.op \in Lookups
  /\ r.outcome = "ClientError"
  /\ "failed_at" \in DOMAIN r.arg

\* C14: of two responses of get_file, update_file and delete_file of app.py
\* that follow each other, one to a request for an id without a record and
\* one to a store call that raised, the HTTP statuses differ.
C14_NotFoundDistinct ==
  [][( \/ IsNotFound(ret) /\ IsTransient(ret')
       \/ IsTransient(ret) /\ IsNotFound(ret') )
       => ret'.http # ret.http]_vars

\* C16: delete_file of app.py removes the blob before the record: its
\* delete_object step leaves the table alone.  When the delete of a stored
\* record then raises, the request ends there, the record is stored as it
\* was (get_file returns it), its blob is not in the bucket, and nothing
\* puts the blob back.
C16_DeleteLeavesDanglingRecord ==
  [][\A p \in Procs :
       /\ (pc[p] = "app_delete_object" /\ pc'[p] = "app_delete_item")
            => /\ table' = table
               /\ req[p].id \notin DOMAIN blobs'
       /\ ( /\ pc[p] = "app_delete_item"
            /\ pc'[p] = "idle"
            /\ FailedAt(ret', "delete_item")
            /\ req[p].id \in DOMAIN table )
            => /\ GetItem(table', req[p].id) = table[req[p].id]
               /\ req[p].id \notin DOMAIN blobs'
               /\ blobs' = blobs
               /\ ret'.http # 200]_vars

\* C16 witness: a DELETE request has failed in the delete of the record; the
\* record is stored, its blob is gone and no request is in flight.
C16_Witness ==
  /\ ret.op = "app_delete_file"
  /\ FailedAt(ret, "delete_item")
  /\ ret.id \in DOMAIN table
  /\ ret.id \notin DOMAIN blobs
  /\ \A p \in Procs : pc[p] = "idle"

\* C15: when update_file of app.py makes its update_item call and the version
\* it read is no longer stored, the request ends there with the table as it
\* was, the failure is the concurrent-update error, and the HTTP status is
\* neither the status of a request for a missing id nor the status of a
\* store call that raised.
C15_ConflictDistinct ==
  [][\A p \in Procs :
       ( /\ pc[p] = "app_update_item"
         /\ ~UpdateCondition(table, req[p].id, req[p].current_version)
         /\ pc'[p] # pc[p] )
       => /\ pc'[p] = "idle"
          /\ table' = table
          /\ ret'.outcome = "ConcurrentModification"
          /\ ret'.http \notin {HandlerStatus("HTTP404"),
                               HandlerStatus("NotFound"),
                               HandlerStatus("ClientError")}]_vars

\* C18: update_file never stores a record under an id that has none.  When
\* the item is gone at its update_item call (a delete_file ran after its
\* get_file), the call fails and the id stays absent; when the item is absent
\* at its get_file, the call fails with the "not found" error without getting
\* to update_item, and the table is as it was.
C18_UpdateNeverRecreates ==
  [][\A p \in Procs :
       /\ ( /\ pc[p] = "update_item"
            /\ pc'[p] = "idle"
            /\ req[p].id \notin DOMAIN table )
          => /\ ret'.op = "update_file"
             /\ ret'.outcome # "ok"
             /\ req[p].id \notin DOMAIN table'
             /\ table' = table
       /\ (pc[p] = "idle" /\ pc'[p] = "update_item")
          => req'[p].id \in DOMAIN table
       /\ ( /\ ret' # ret
            /\ ret'.op = "update_file"
            /\ ret'.id \notin DOMAIN table
            /\ pc' = pc )
          => /\ ret'.outcome = "NotFound"
             /\ table' = table]_vars

\* C18 witness: an update_file call that had read the record has failed at
\* its update_item after a delete_file removed the record, and the id is still
\* absent.
C18_Witness ==
  /\ ret.op = "update_file"
  /\ ret.outcome \notin {"ok", "NotFound"}
  /\ ret.id \notin DOMAIN table
  /\ Count(created, ret.id) = 0

\* the callers of the delete race whose request was answered with status h
DeleteAnswers(h) == {p \in Procs : hist[p].op = "done" /\ hist[p].http = h}

\* C20: of the concurrent DELETE requests for one stored id, with no store
\* call raising, at most one is answered with success; and once all are
\* answered, every other one has been answered with a failure and neither the
\* record nor the blob of the id is stored.
C20_OneDeleteSucceeds ==
  /\ Cardinality(DeleteAnswers(200)) <= 1
  /\ (\A p \in Procs : hist[p].op = "done")
       => /\ \A p \in Procs \ DeleteAnswers(200) : hist[p].http >= 400
          /\ \A p \in Procs :
               /\ hist[p].id \notin DOMAIN table
               /\ hist[p].id \notin DOMAIN blobs

\* C20 witness: all requests are answered, one with success, and the last
\* answer is the failure of a request that had passed its existence check.
C20_Witness ==
  /\ \A p \in Procs : hist[p].op = "done"
  /\ Cardinality(DeleteAnswers(200)) = 1
  /\ ret.op = "app_delete_file"
  /\ ret.outcome = "NotFound"

\* C13: when batch_operation has answered, its response holds one result
\* for every operation sent, in order: "unsupported" for an operation of a
\* type other than delete, "success" or "failed" for a delete; and every
\* delete operation has been carried out, so that no id it names is stored.
C13_BatchItemsIndependent ==
  batch.op = "done"
    => /\ Len(batch.response) = Len(batch.operations)
       /\ \A k \in 1..Len(batch.operations) :
            LET operation == batch.operations[k] IN
            /\ batch.response[k].file_id = operation.file_id
            /\ batch.response[k].operation = operation.type
            /\ IF operation.type = "delete"
                 THEN /\ batch.response[k].status \in {"success", "failed"}
                      /\ operation.file_id \notin DOMAIN table
                 ELSE batch.response[k].status = "unsupported"

\* C17: batch_get_files(file_ids) returns the stored item of every id of
\* file_ids that is stored, and a call with more than the 100 ids of one
\* batch read has taken two rounds or more.
C17_BatchGetsAll ==
  (ret.op = "batch_get_files" /\ ret.arg.file_ids # << >>)
    => /\ ret.outcome = "ok"
       /\ \A i \in Range(ret.arg.file_ids) \cap DOMAIN table :
            table[i] \in Range(ret.page)
       /\ Len(ret.arg.file_ids) > BatchReadLimit => ret.arg.rounds >= 2

\* the stored ids whose record has status active
ActiveIds == {i \in DOMAIN table : FilterExpression(table[i])}

\* C19: a client that pages through list_files with a limit of 1 or more,
\* while nothing writes to the table, gets an answer without a cursor after
\* at most one call more than there are stored records; no record is in its
\* pages twice, and when it is done its pages hold exactly the stored records
\* with status active.
C19_PagingTerminatesAndCovers ==
  /\ [](batch.op \in {"paging", "done"}
          => /\ batch.calls <= Cardinality(DOMAIN table) + 1
             /\ \A j, k \in 1..Len(batch.seen) :
                  batch.seen[j] = batch.seen[k] => j = k
             /\ batch.op = "done" => Range(batch.seen) = ActiveIds)
  /\ (batch.op = "paging" ~> batch.op = "done")

\* C19 witness: the client is done after three calls or more, one of which
\* returned an empty page, over a table with active and other records.
C19_Witness ==
  /\ batch.op = "done"
  /\ batch.calls >= 3
  /\ batch.calls > Len(batch.seen)
  /\ ActiveIds # {}
  /\ ActiveIds # DOMAIN table

====
